---------------------------- MODULE Spec2Model ----------------------------
(***************************************************************************)
(* A model of src/proxy.rs: the HTTP CONNECT tunnel negotiator of ws-rs.   *)
(*                                                                         *)
(* Text is modelled as sequences of bytes (0..255).  A Proxy value is the  *)
(* pair (url, auth_type); Proxy::connect is split at its blocking I/O      *)
(* calls into the steps Connect, BuildRequest, WriteRequest, ReadResponse  *)
(* and Dispatch.  The proxy on the other end of the connection, the        *)
(* transport and the caller are the environment: they choose whether an    *)
(* I/O call fails, how many bytes it moves and which bytes the proxy       *)
(* answers with.                                                           *)
(***************************************************************************)
EXTENDS Integers, Sequences, FiniteSets, TLC

VARIABLES
    url,        \* Proxy.url: [has_authority, username, password]
    auth_type,  \* Proxy.auth_type
    pc,         \* position of the (single) caller thread inside connect
    target,     \* the `url` argument of the running connect call
    stream,     \* local `stream`: index into conns, 0 when there is none
    connect,    \* local `connect`: the request text built by the call
    buf,        \* local `buf`
    result,     \* what the call ended with
    conns,      \* every transport connection ever opened: [state, owner, call]
    io,         \* what the running call did on the wire so far
    response,   \* which of Responses the proxy answered with, 0 for none yet
    prev,       \* the last unexpected-status answer the caller saw: [code, result]
    calls       \* number of connect calls started

vars == <<url, auth_type, pc, target, stream, connect, buf, result, conns,
          io, response, prev, calls>>

----------------------------------------------------------------------------
(* Bounds of the model.                                                    *)

\* connect calls per behaviour
MaxCalls == 2
\* length of a short write: the transport accepts only this many bytes
ShortWriteLen == 8
\* length of a short read: the transport delivers only this many bytes
ShortReadLen == 12

----------------------------------------------------------------------------
(* Bytes and text.                                                         *)

Min(a, b) == IF a < b THEN a ELSE b

\* Option<T>
None == [some |-> FALSE]
Some(v) == [some |-> TRUE, v |-> v]

\* s[from..], 1-based
Drop(s, n) == SubSeq(s, n + 1, Len(s))
Take(s, n) == SubSeq(s, 1, Min(n, Len(s)))

\* str::starts_with
starts_with(s, p) == Len(s) >= Len(p) /\ SubSeq(s, 1, Len(p)) = p

\* char::to_lowercase on one byte.  Only ASCII letters change; the bytes of
\* a multi-byte character are left as they are.
lower_byte(b) == IF b >= 65 /\ b <= 90 THEN b + 32 ELSE b

\* str::to_lowercase
to_lowercase(s) == [i \in 1..Len(s) |-> lower_byte(s[i])]

\* Concatenation of a sequence of byte strings.
RECURSIVE Concat(_)
Concat(ss) == IF ss = <<>> THEN <<>> ELSE Head(ss) \o Concat(Tail(ss))

\* Display of an unsigned integer ("{}" of a u16).
RECURSIVE fmt_u16(_)
fmt_u16(n) == IF n < 10 THEN <<48 + n>> ELSE fmt_u16(n \div 10) \o <<48 + (n % 10)>>

\* Continuation byte of a UTF-8 sequence.
IsCont(s, i) == i <= Len(s) /\ s[i] >= 128 /\ s[i] <= 191

\* std::str::from_utf8 validation, from byte i on.
RECURSIVE utf8_valid_from(_, _)
utf8_valid_from(s, i) ==
    IF i > Len(s) THEN TRUE
    ELSE LET b == s[i] IN
         IF b < 128 THEN utf8_valid_from(s, i + 1)
         ELSE IF b >= 194 /\ b <= 223
              THEN IsCont(s, i + 1) /\ utf8_valid_from(s, i + 2)
         ELSE IF b >= 224 /\ b <= 239
              THEN /\ IsCont(s, i + 1) /\ IsCont(s, i + 2)
                   /\ (b = 224 => s[i + 1] >= 160)
                   /\ (b = 237 => s[i + 1] <= 159)
                   /\ utf8_valid_from(s, i + 3)
         ELSE IF b >= 240 /\ b <= 244
              THEN /\ IsCont(s, i + 1) /\ IsCont(s, i + 2) /\ IsCont(s, i + 3)
                   /\ (b = 240 => s[i + 1] >= 144)
                   /\ (b = 244 => s[i + 1] <= 143)
                   /\ utf8_valid_from(s, i + 4)
         ELSE FALSE

\* String::from_utf8(v).is_ok()
from_utf8_ok(s) == utf8_valid_from(s, 1)

----------------------------------------------------------------------------
(* AuthType.                                                               *)

AuthNone == [tag |-> "None", name |-> <<>>]
AuthBasic == [tag |-> "Basic", name |-> <<>>]
AuthDigest == [tag |-> "Digest", name |-> <<>>]
Unknown(s) == [tag |-> "Unknown", name |-> s]

str_basic == <<98, 97, 115, 105, 99>>            \* "basic"
str_digest == <<100, 105, 103, 101, 115, 116>>   \* "digest"

\* AuthType::from that compares the text as it is, without to_lowercase.
AuthType_from_exact(s) ==
    IF starts_with(s, str_basic) THEN AuthBasic
    ELSE IF starts_with(s, str_digest) THEN AuthDigest
    ELSE Unknown(s)

\* impl From<&str> for AuthType
AuthType_from(s) ==
    LET lower == to_lowercase(s) IN
    IF starts_with(lower, str_basic) THEN AuthBasic
    ELSE IF starts_with(lower, str_digest) THEN AuthDigest
    ELSE Unknown(s)

\* The standard base64 alphabet.
B64Alphabet ==
    <<65, 66, 67, 68, 69, 70, 71, 72, 73, 74, 75, 76, 77, 78, 79, 80, 81, 82,
      83, 84, 85, 86, 87, 88, 89, 90, 97, 98, 99, 100, 101, 102, 103, 104,
      105, 106, 107, 108, 109, 110, 111, 112, 113, 114, 115, 116, 117, 118,
      119, 120, 121, 122, 48, 49, 50, 51, 52, 53, 54, 55, 56, 57, 43, 47>>

B64Char(n) == B64Alphabet[n + 1]

\* crate::handshake::encode_base64: standard alphabet, '=' padding.
RECURSIVE encode_base64(_)
encode_base64(s) ==
    IF Len(s) = 0 THEN <<>>
    ELSE IF Len(s) = 1
         THEN <<B64Char(s[1] \div 4), B64Char((s[1] % 4) * 16), 61, 61>>
    ELSE IF Len(s) = 2
         THEN <<B64Char(s[1] \div 4),
                B64Char(((s[1] % 4) * 16) + (s[2] \div 16)),
                B64Char((s[2] % 16) * 4), 61>>
    ELSE <<B64Char(s[1] \div 4),
           B64Char(((s[1] % 4) * 16) + (s[2] \div 16)),
           B64Char(((s[2] % 16) * 4) + (s[3] \div 64)),
           B64Char(s[3] % 64)>> \o encode_base64(Drop(s, 3))

\* AuthType::get_credential.  unimplemented!() panics: the outcome is
\* [panic |-> TRUE].
get_credential(self, auth) ==
    CASE self.tag = "None" -> [panic |-> FALSE, v |-> auth]
      [] self.tag = "Basic" -> [panic |-> FALSE, v |-> encode_base64(auth)]
      [] self.tag = "Digest" -> [panic |-> TRUE, v |-> <<>>]
      [] self.tag = "Unknown" -> [panic |-> FALSE, v |-> auth]

----------------------------------------------------------------------------
(* The proxy Url (url crate 1.x) and the Proxy configuration.              *)

HexDigit(n) == IF n < 10 THEN 48 + n ELSE 55 + n

\* The userinfo percent-encode set of the url crate: C0 controls, space,
\* " # < > ? ` { } / : ; = @ [ \ ] ^ | and every byte above 0x7E.
UserinfoEncodeSet ==
    (0..32) \cup {34, 35, 60, 62, 63, 96, 123, 125, 47, 58, 59, 61, 64, 91,
                  92, 93, 94, 124} \cup (127..255)

percent_encode_byte(b) ==
    IF b \in UserinfoEncodeSet
    THEN <<37, HexDigit(b \div 16), HexDigit(b % 16)>>
    ELSE <<b>>

\* utf8_percent_encode(s, USERINFO_ENCODE_SET)
percent_encode(s) == Concat([i \in 1..Len(s) |-> percent_encode_byte(s[i])])

\* Url::set_username: fails, and changes nothing, on a url without a host.
url_set_username(u, username) ==
    IF ~u.has_authority THEN u
    ELSE [u EXCEPT !.username = percent_encode(username)]

\* Url::set_password(Some(password))
url_set_password(u, password) ==
    IF ~u.has_authority THEN u
    ELSE [u EXCEPT !.password = Some(percent_encode(password))]

\* Proxy::get_auth.  password().unwrap() panics on None.
get_auth(u) ==
    IF u.password.some
    THEN [panic |-> FALSE, v |-> u.username \o <<58>> \o u.password.v]
    ELSE [panic |-> TRUE, v |-> <<>>]

\* has_auth that asks only for an authority, not for a password.
has_auth_authority_only(u) == u.has_authority

\* Proxy::has_auth
has_auth(u) == u.has_authority /\ u.password.some

----------------------------------------------------------------------------
(* httparse::Response::parse (httparse 1.x) on the whole read buffer.      *)

\* let mut buf = [0; 1024]
BufSize == 1024
\* let mut headers = [EMPTY_HEADER; 32]
MaxHeaders == 32

EMPTY_HEADER == [name |-> <<>>, value |-> <<>>]

\* Bytes of a header name (RFC 7230 tchar).
HeaderNameTokens ==
    {33, 35, 36, 37, 38, 39, 42, 43, 45, 46, 94, 95, 96, 124, 126}
        \cup (48..57) \cup (65..90) \cup (97..122)

\* Bytes of a header value: HTAB, the visible characters, SP and obs-text.
HeaderValueTokens == {9} \cup (32..126) \cup (128..255)

\* Bytes of a reason phrase.
ReasonTokens == {9} \cup (32..126) \cup (128..255)

Digits == 48..57

str_http1 == <<72, 84, 84, 80, 47, 49, 46>>      \* "HTTP/1."

\* The least index i >= from with b[i] \notin S, Len(b) + 1 if there is none.
\* The scan goes by chunks, so that its depth stays small on a long run.
RECURSIVE FirstNotIn(_, _, _)
FirstNotIn(b, from, S) ==
    IF from > Len(b) THEN Len(b) + 1
    ELSE LET hi == Min(from + 31, Len(b))
             out == {i \in from..hi : b[i] \notin S}
         IN IF out # {} THEN CHOOSE i \in out : \A j \in out : i <= j
            ELSE FirstNotIn(b, hi + 1, S)

\* The greatest index i in from..to with b[i] \notin S, from - 1 if none.
LastNotIn(b, from, to, S) ==
    LET in == {i \in from..to : b[i] \notin S}
    IN IF in = {} THEN from - 1 ELSE CHOOSE i \in in : \A j \in in : j <= i

Partial(code, headers) == [status |-> "Partial", code |-> code, headers |-> headers]
ParseErr(e) == [status |-> "Error", error |-> e, code |-> None, headers |-> <<>>]
Complete(code, headers) == [status |-> "Complete", code |-> code, headers |-> headers]

\* The header array as the caller sees it after a parse that did not
\* complete: the slots filled so far, the others still EMPTY_HEADER.
Unshrunk(hs) == hs \o [i \in 1..(MaxHeaders - Len(hs)) |-> EMPTY_HEADER]

\* One turn of the loop of parse_headers_iter, on the line that starts at
\* b[i] when n headers are stored: the end of the head ("end"), a header
\* ("header", with `next` the start of the next line), "partial" when the
\* buffer ends first, or "error".
header_line(b, i, n) ==
    IF i > Len(b) THEN [kind |-> "partial"]
    ELSE IF b[i] = 13
         THEN IF i + 1 > Len(b) THEN [kind |-> "partial"]
              ELSE IF b[i + 1] = 10 THEN [kind |-> "end"]
              ELSE [kind |-> "error", error |-> "NewLine"]
    ELSE IF b[i] = 10 THEN [kind |-> "end"]
    ELSE IF b[i] \notin HeaderNameTokens
         THEN [kind |-> "error", error |-> "HeaderName"]
    ELSE IF n = MaxHeaders THEN [kind |-> "error", error |-> "TooManyHeaders"]
    ELSE LET colon == FirstNotIn(b, i, HeaderNameTokens) IN
         IF colon > Len(b) THEN [kind |-> "partial"]
         ELSE IF b[colon] # 58 THEN [kind |-> "error", error |-> "HeaderName"]
         ELSE LET vstart == FirstNotIn(b, colon + 1, {32, 9})
                  vend == FirstNotIn(b, vstart, HeaderValueTokens)
                  \* trailing whitespace is not part of the value
                  vlast == LastNotIn(b, vstart, vend - 1, {32, 9})
                  h == [name |-> SubSeq(b, i, colon - 1),
                        value |-> SubSeq(b, vstart, vlast)]
              IN IF vend > Len(b) THEN [kind |-> "partial"]
                 ELSE IF b[vend] = 13
                      THEN IF vend + 1 > Len(b) THEN [kind |-> "partial"]
                           ELSE IF b[vend + 1] = 10
                                THEN [kind |-> "header", h |-> h, next |-> vend + 2]
                           ELSE [kind |-> "error", error |-> "HeaderValue"]
                 ELSE IF b[vend] = 10
                      THEN [kind |-> "header", h |-> h, next |-> vend + 1]
                 ELSE [kind |-> "error", error |-> "HeaderValue"]

\* The loop of parse_headers_iter from b[i] on, with headers hs stored and
\* the status code already in res.code.
RECURSIVE header_loop(_, _, _, _)
header_loop(b, i, hs, code) ==
    LET ln == header_line(b, i, Len(hs)) IN
    CASE ln.kind = "header" -> header_loop(b, ln.next, Append(hs, ln.h), code)
      [] ln.kind = "end" -> Complete(code, hs)
      [] ln.kind = "partial" -> Partial(code, Unshrunk(hs))
      [] ln.kind = "error" -> ParseErr(ln.error)

\* parse_headers_iter from b[i] on.
parse_headers(b, i, code) == header_loop(b, i, <<>>, code)

\* The rest of the status line from b[i], the byte after the status code:
\* the index where the header lines start, 0 when the buffer ends before
\* the line does, -1 when the line is malformed.
status_line_end(b, i) ==
    IF i > Len(b) THEN 0
    ELSE LET e == IF b[i] = 32 THEN FirstNotIn(b, i + 1, ReasonTokens) ELSE i IN
         IF e > Len(b) THEN 0
         ELSE IF b[e] = 13
              THEN IF e + 1 > Len(b) THEN 0
                   ELSE IF b[e + 1] = 10 THEN e + 2
                   ELSE -1
         ELSE IF b[e] = 10 THEN e + 1
         ELSE -1

\* The status line from the byte after the status code on, then the headers.
parse_after_code(b, i, code) ==
    LET s == status_line_end(b, i) IN
    IF s = 0 THEN Partial(code, Unshrunk(<<>>))
    ELSE IF s < 0 THEN ParseErr("Status")
    ELSE parse_headers(b, s, code)

\* parse_code: three digits.
parse_code(b, i) ==
    LET avail == Min(3, Len(b) - i + 1) IN
    IF \E k \in 0..(avail - 1) : b[i + k] \notin Digits THEN ParseErr("Status")
    ELSE IF avail < 3 THEN Partial(None, Unshrunk(<<>>))
    ELSE parse_after_code(b, i + 3,
            Some((b[i] - 48) * 100 + (b[i + 1] - 48) * 10 + (b[i + 2] - 48)))

\* parse_version and the space after it.
parse_version(b, i) ==
    LET avail == Len(b) - i + 1 IN
    IF avail >= 8
    THEN IF SubSeq(b, i, i + 6) = str_http1 /\ b[i + 7] \in {48, 49}
         THEN IF i + 8 > Len(b) THEN Partial(None, Unshrunk(<<>>))
              ELSE IF b[i + 8] = 32 THEN parse_code(b, i + 9)
              ELSE ParseErr("Version")
         ELSE ParseErr("Version")
    ELSE IF \E k \in 1..Min(avail, 7) : b[i + k - 1] # str_http1[k]
         THEN ParseErr("Version")
    ELSE Partial(None, Unshrunk(<<>>))

\* Response::parse: skip_empty_lines, then the status line, then the headers.
Response_parse(b) ==
    LET k == FirstNotIn(b, 1, {13, 10})
        badcr == {j \in 1..(k - 1) : b[j] = 13 /\ j + 1 <= Len(b) /\ b[j + 1] # 10}
    IN IF badcr # {} THEN ParseErr("NewLine")
       ELSE IF k > Len(b) THEN Partial(None, Unshrunk(<<>>))
       ELSE parse_version(b, k)

----------------------------------------------------------------------------
(* What a proxy can answer: a response head it meant to send, or raw bytes.*)

\* A status code as three digits.
fmt_code(c) == <<48 + (c \div 100), 48 + ((c \div 10) % 10), 48 + (c % 10)>>

str_http11 == <<72, 84, 84, 80, 47, 49, 46, 49, 32>>  \* "HTTP/1.1 "
str_ok == <<79, 75>>                                   \* "OK"
crlf == <<13, 10>>

HeaderLine(h) == h.name \o <<58, 32>> \o h.value \o crlf

\* The head of an HTTP/1.1 response: status line, headers, blank line.
HeadBytes(code, headers) ==
    str_http11 \o fmt_code(code) \o <<32>> \o str_ok \o crlf
        \o Concat([i \in 1..Len(headers) |-> HeaderLine(headers[i])]) \o crlf

\* A well-formed response: its head, then `body` bytes of tunnel data.
Http(code, headers, body) ==
    [wellformed |-> TRUE, code |-> code, headers |-> headers,
     head_len |-> Len(HeadBytes(code, headers)),
     bytes |-> HeadBytes(code, headers) \o body]

\* Bytes that are no response head.
Raw(bytes) ==
    [wellformed |-> FALSE, code |-> 0, headers |-> <<>>, head_len |-> 0,
     bytes |-> bytes]

----------------------------------------------------------------------------
(* Results.                                                                *)

\* Kind::Proxy(Option<Vec<AuthType>>)
Kind_Proxy(auth_list) == [tag |-> "Proxy", auth_list |-> auth_list]

NoResult == [tag |-> "none"]
Ok(s) == [tag |-> "Ok", stream |-> s]
\* Error::new(kind, details)
Err(kind, details) == [tag |-> "Err", kind |-> kind, details |-> details]
\* The call unwound with a panic instead of returning.
Panicked(why) == [tag |-> "Panic", details |-> why]

\* `?` on an io::Error: the connection-error failure.
from_io_error == Err([tag |-> "Io"], "io error")
\* `?` on an httparse::Error: the protocol-parse failure.
from_httparse_error(e) == Err([tag |-> "Http"], e)

\* DropStream with the socket leaked instead of closed (as by mem::forget).
DropStream_leak(cs, s) == cs

\* A TcpStream going out of scope closes the socket.
DropStream(cs, s) ==
    IF s = 0 THEN cs
    ELSE [cs EXCEPT ![s].state = "closed", ![s].owner = "nobody"]

\* TcpStream::from_stream(stream): the same socket, now owned by the value
\* the caller receives.
MoveToCaller(cs, s) == [cs EXCEPT ![s].owner = "caller"]

----------------------------------------------------------------------------
(* Inputs.                                                                 *)

str_user == <<117, 115, 101, 114>>      \* "user"
str_pw == <<112, 119>>                  \* "pw"
str_p_at == <<112, 64>>                 \* "p@"
str_h == <<104>>                        \* "h"
str_ntlm == <<78, 84, 76, 77>>          \* "NTLM"

\* Proxy urls a Proxy is built from: without a host, "http://proxy" and
\* "http://user:pw@proxy".
InitUrls ==
    {[has_authority |-> FALSE, username |-> <<>>, password |-> None],
     [has_authority |-> TRUE, username |-> <<>>, password |-> None],
     [has_authority |-> TRUE, username |-> str_user, password |-> Some(str_pw)]}

AuthTypes == {AuthNone, AuthBasic, AuthDigest, Unknown(str_ntlm)}
Usernames == {str_user}
Passwords == {str_pw, str_p_at}

\* Targets: a url without a host, "ws://h" (no known default port for the
\* url crate) and "wss://h:443".
Targets ==
    {[host_str |-> None, port_or_known_default |-> None],
     [host_str |-> Some(str_h), port_or_known_default |-> None],
     [host_str |-> Some(str_h), port_or_known_default |-> Some(443)]}

\* Nothing done on the wire yet.  `conn` is the connection the call opened,
\* `failed` the I/O call that returned an error, if one did.
NoIo ==
    [opens |-> 0, conn |-> 0, writes |-> 0, reads |-> 0, sent |-> <<>>,
     read_len |-> 0, failed |-> "none"]
NoResponse == 0
NoPrev == [code |-> None, result |-> NoResult]

----------------------------------------------------------------------------
(* The proxy configuration: constructors and setters.                      *)

\* Proxy::new and Proxy::new_with_auth
Init ==
    /\ url \in InitUrls
    /\ auth_type \in AuthTypes
    /\ pc = "idle"
    /\ target = [host_str |-> None, port_or_known_default |-> None]
    /\ stream = 0
    /\ connect = <<>>
    /\ buf = <<>>
    /\ result = NoResult
    /\ conns = <<>>
    /\ io = NoIo
    /\ response = NoResponse
    /\ prev = NoPrev
    /\ calls = 0

\* Proxy::set_auth_type
set_auth_type(a) ==
    /\ pc = "idle"
    /\ auth_type' = a
    /\ UNCHANGED <<url, pc, target, stream, connect, buf, result, conns, io,
                   response, prev, calls>>

\* Proxy::set_username
set_username(username) ==
    /\ pc = "idle"
    /\ url' = url_set_username(url, username)
    /\ UNCHANGED <<auth_type, pc, target, stream, connect, buf, result, conns,
                   io, response, prev, calls>>

\* Proxy::set_password
set_password(password) ==
    /\ pc = "idle"
    /\ url' = url_set_password(url, password)
    /\ UNCHANGED <<auth_type, pc, target, stream, connect, buf, result, conns,
                   io, response, prev, calls>>

----------------------------------------------------------------------------
(* Proxy::connect, lines 84-111: the request text.                         *)

str_connect == <<67, 79, 78, 78, 69, 67, 84, 32>>       \* "CONNECT "
\* " HTTP/1.1\r\nHost: "
str_http11_host ==
    <<32, 72, 84, 84, 80, 47, 49, 46, 49, 13, 10, 72, 111, 115, 116, 58, 32>>
\* "\r\nProxy-Authorization: Basic "
str_proxy_authorization ==
    <<13, 10, 80, 114, 111, 120, 121, 45, 65, 117, 116, 104, 111, 114, 105,
      122, 97, 116, 105, 111, 110, 58, 32, 66, 97, 115, 105, 99, 32>>
\* "\r\nConnection: keep-alive\r\n\r\n"
str_keep_alive ==
    <<13, 10, 67, 111, 110, 110, 101, 99, 116, 105, 111, 110, 58, 32, 107,
      101, 101, 112, 45, 97, 108, 105, 118, 101, 13, 10, 13, 10>>

\* url.port_or_known_default().unwrap_or(80)
DefaultPort == 80

\* format!("{}:{}", url.host_str().unwrap(), url.port_or_known_default().unwrap_or(80))
host_of(t) ==
    t.host_str.v \o <<58>>
        \o fmt_u16(IF t.port_or_known_default.some
                   THEN t.port_or_known_default.v ELSE DefaultPort)

\* build_request with the credentials of the proxy url sent whenever the
\* url has them, whatever the scheme says.
build_request_eager(u, a, t) ==
    IF ~t.host_str.some
    THEN Panicked("called Option::unwrap() on a None value")
    ELSE LET host == host_of(t) IN
         CASE a.tag = "None" /\ ~has_auth(u) ->
                [tag |-> "send",
                 bytes |-> str_connect \o host \o str_http11_host \o host
                               \o str_keep_alive]
           [] a.tag \in {"None", "Basic"} /\ has_auth(u) ->
                [tag |-> "send",
                 bytes |-> str_connect \o host \o str_http11_host
                               \o host \o str_proxy_authorization
                               \o encode_base64(get_auth(u).v)
                               \o str_keep_alive]
           [] a.tag = "Basic" /\ ~has_auth(u) ->
                Err(Kind_Proxy(None), "use basic auth, but dont have auth.")
           [] a.tag = "Digest" -> Panicked("not implemented")
           [] a.tag = "Unknown" ->
                Err(Kind_Proxy(None), "unsupport authorization type.")

\* build_request with an unknown scheme sent like AuthType::None, the way
\* get_credential treats it.
build_request_lenient(u, a, t) ==
    IF ~t.host_str.some
    THEN Panicked("called Option::unwrap() on a None value")
    ELSE LET host == host_of(t) IN
         CASE a.tag \in {"None", "Unknown"} ->
                [tag |-> "send",
                 bytes |-> str_connect \o host \o str_http11_host \o host
                               \o str_keep_alive]
           [] a.tag = "Basic" ->
                IF has_auth(u)
                THEN [tag |-> "send",
                      bytes |-> str_connect \o host \o str_http11_host
                                    \o host \o str_proxy_authorization
                                    \o get_credential(a, get_auth(u).v).v
                                    \o str_keep_alive]
                ELSE Err(Kind_Proxy(None), "use basic auth, but dont have auth.")
           [] a.tag = "Digest" -> Panicked("not implemented")

\* The `match self.auth_type` that builds `connect`: a request to send
\* (tag "send"), an early return (tag "Err") or a panic (tag "Panic").
build_request(u, a, t) ==
    IF ~t.host_str.some
    THEN Panicked("called Option::unwrap() on a None value")
    ELSE LET host == host_of(t) IN
         CASE a.tag = "None" ->
                [tag |-> "send",
                 bytes |-> str_connect \o host \o str_http11_host \o host
                               \o str_keep_alive]
           [] a.tag = "Basic" ->
                IF has_auth(u)
                THEN LET auth == get_auth(u)
                         cred == get_credential(a, auth.v)
                     IN IF auth.panic
                        THEN Panicked("called Option::unwrap() on a None value")
                        ELSE IF cred.panic THEN Panicked("not implemented")
                        ELSE [tag |-> "send",
                              bytes |-> str_connect \o host \o str_http11_host
                                            \o host \o str_proxy_authorization
                                            \o cred.v \o str_keep_alive]
                ELSE Err(Kind_Proxy(None), "use basic auth, but dont have auth.")
           [] a.tag = "Digest" -> Panicked("not implemented")
           [] a.tag = "Unknown" ->
                Err(Kind_Proxy(None), "unsupport authorization type.")

----------------------------------------------------------------------------
(* Proxy::connect, lines 120-143: the response.                            *)

\* "Proxy-Authenticate"
str_proxy_authenticate ==
    <<80, 114, 111, 120, 121, 45, 65, 117, 116, 104, 101, 110, 116, 105, 99,
      97, 116, 101>>

\* auth_list_of with the header name compared without regard to case, as
\* HTTP header names are.
auth_list_of_anycase(hs) ==
    LET named == SelectSeq(hs, LAMBDA header :
                     to_lowercase(header.name) = to_lowercase(str_proxy_authenticate))
    IN IF \E k \in 1..Len(named) : ~from_utf8_ok(named[k].value)
       THEN [panic |-> TRUE, v |-> <<>>]
       ELSE [panic |-> FALSE,
             v |-> [k \in 1..Len(named) |-> AuthType_from(named[k].value)]]

\* The filter_map over res.headers: [panic, v].  A Proxy-Authenticate value
\* that is not UTF-8 panics in String::from_utf8(..).unwrap().
auth_list_of(hs) ==
    LET named == SelectSeq(hs, LAMBDA header : header.name = str_proxy_authenticate)
    IN IF \E k \in 1..Len(named) : ~from_utf8_ok(named[k].value)
       THEN [panic |-> TRUE, v |-> <<>>]
       ELSE [panic |-> FALSE,
             v |-> [k \in 1..Len(named) |-> AuthType_from(named[k].value)]]

\* match_code without the 401 arm: a 401 falls to the last arm.
match_code_without401(res) ==
    IF res.code.some /\ res.code.v >= 200 /\ res.code.v < 300
    THEN [tag |-> "Ok"]
    ELSE IF res.code.some /\ res.code.v = 407
         THEN LET auth_list == auth_list_of(res.headers) IN
              IF auth_list.panic
              THEN Panicked("called Result::unwrap() on an Err value")
              ELSE Err(Kind_Proxy(Some(auth_list.v)), "proxy required authorization.")
    ELSE Err(Kind_Proxy(None), "unexpect responsecode from proxy.")

\* match_code with the success arm written `code <= 300`.
match_code_upto300(res) ==
    IF res.code.some /\ res.code.v >= 200 /\ res.code.v <= 300
    THEN [tag |-> "Ok"]
    ELSE IF res.code.some /\ res.code.v = 401
         THEN Err(Kind_Proxy(None), "proxy unauthorized.")
    ELSE IF res.code.some /\ res.code.v = 407
         THEN LET auth_list == auth_list_of(res.headers) IN
              IF auth_list.panic
              THEN Panicked("called Result::unwrap() on an Err value")
              ELSE Err(Kind_Proxy(Some(auth_list.v)), "proxy required authorization.")
    ELSE Err(Kind_Proxy(None), "unexpect responsecode from proxy.")

\* match_code with the 401 arm written `code >= 401`.
match_code_from401(res) ==
    IF res.code.some /\ res.code.v >= 200 /\ res.code.v < 300
    THEN [tag |-> "Ok"]
    ELSE IF res.code.some /\ res.code.v >= 401
         THEN Err(Kind_Proxy(None), "proxy unauthorized.")
    ELSE Err(Kind_Proxy(None), "unexpect responsecode from proxy.")

\* `match res.code`.  Tag "Ok" stands for the arm that hands the stream to
\* TcpStream::from_stream.
match_code(res) ==
    IF res.code.some /\ res.code.v >= 200 /\ res.code.v < 300
    THEN [tag |-> "Ok"]
    ELSE IF res.code.some /\ res.code.v = 401
         THEN Err(Kind_Proxy(None), "proxy unauthorized.")
    ELSE IF res.code.some /\ res.code.v = 407
         THEN LET auth_list == auth_list_of(res.headers) IN
              IF auth_list.panic
              THEN Panicked("called Result::unwrap() on an Err value")
              ELSE Err(Kind_Proxy(Some(auth_list.v)), "proxy required authorization.")
    ELSE Err(Kind_Proxy(None), "unexpect responsecode from proxy.")

\* res.parse(&mut buf)? and the match.
dispatch(b) ==
    LET res == Response_parse(b) IN
    IF res.status = "Error" THEN from_httparse_error(res.error)
    ELSE match_code(res)

----------------------------------------------------------------------------
(* What the proxy answers.                                                 *)

\* "proxy-authenticate"
str_proxy_authenticate_lower ==
    <<112, 114, 111, 120, 121, 45, 97, 117, 116, 104, 101, 110, 116, 105, 99,
      97, 116, 101>>
\* "Basic realm=\"x\""
str_basic_realm ==
    <<66, 97, 115, 105, 99, 32, 114, 101, 97, 108, 109, 61, 34, 120, 34>>
str_server == <<83, 101, 114, 118, 101, 114>>     \* "Server"
str_x == <<88>>                                   \* "X"
str_garbage == <<88, 89, 90, 13, 10, 13, 10>>     \* "XYZ\r\n\r\n"

Hdr(name, value) == [name |-> name, value |-> value]

\* A header whose value alone is longer than the read buffer.
LongHeader == Hdr(str_x, [i \in 1..(BufSize + 8) |-> 97])

\* Challenge texts: "BASIC", "bAsIc realm=x", "DIGEST", "Digest qop=auth",
\* "digesT", "Negotiate", "basi", "xBasic", "Diges t", "BasicDigest".
ChallengeTexts ==
    << <<66, 65, 83, 73, 67>>,
       <<98, 65, 115, 73, 99, 32, 114, 101, 97, 108, 109, 61, 120>>,
       <<68, 73, 71, 69, 83, 84>>,
       <<68, 105, 103, 101, 115, 116, 32, 113, 111, 112, 61, 97, 117, 116, 104>>,
       <<100, 105, 103, 101, 115, 84>>,
       <<78, 101, 103, 111, 116, 105, 97, 116, 101>>,
       <<98, 97, 115, 105>>,
       <<120, 66, 97, 115, 105, 99>>,
       <<68, 105, 103, 101, 115, 32, 116>>,
       <<66, 97, 115, 105, 99, 68, 105, 103, 101, 115, 116>> >>

\* The answers the proxy chooses from, by number.
Responses ==
    << Http(200, <<>>, <<>>),
      Http(299, <<Hdr(str_server, str_x)>>, <<23, 3, 3>>),
      Http(199, <<>>, <<>>),
      Http(300, <<>>, <<>>),
      Http(401, <<Hdr(str_proxy_authenticate, str_basic_realm)>>, <<>>),
      Http(500, <<Hdr(str_server, str_x)>>, <<>>),
      Http(407, <<Hdr(str_proxy_authenticate, str_basic_realm),
                  Hdr(str_proxy_authenticate, str_ntlm)>>, <<>>),
      Http(407, <<>>, <<>>),
      Http(407, <<Hdr(str_proxy_authenticate_lower, str_basic_realm),
                  Hdr(str_proxy_authenticate, <<>>),
                  Hdr(str_server, str_x),
                  Hdr(str_proxy_authenticate, str_ntlm),
                  Hdr(str_proxy_authenticate, str_ntlm)>>, <<>>),
      \* a challenge value that is not UTF-8
      Http(407, <<Hdr(str_proxy_authenticate, <<255, 254>>)>>, <<>>),
      \* heads that do not fit the read buffer
      Http(200, <<LongHeader>>, <<>>),
      Http(407, <<Hdr(str_proxy_authenticate, str_basic_realm), LongHeader>>, <<>>),
      \* more headers than the header array holds
      Http(200, [i \in 1..(MaxHeaders + 1) |-> Hdr(str_x, str_x)], <<>>),
      \* no response head at all
      Raw(<<>>),
      Raw(str_garbage),
      \* a head cut before its blank line
      Raw(Take(HeadBytes(200, <<Hdr(str_server, str_x)>>), 27)),
      \* nothing but empty lines, as many as the buffer holds
      Raw([i \in 1..BufSize |-> IF i % 2 = 1 THEN 13 ELSE 10]),
      \* challenges in several letter cases, and near misses
      Http(407, [i \in 1..Len(ChallengeTexts) |->
                    Hdr(str_proxy_authenticate, ChallengeTexts[i])], <<>>) >>

\* The answer on the current connection; before any, no bytes.
Answer == IF response = 0 THEN Raw(<<>>) ELSE Responses[response]

\* The byte counts one read can return for an answer of `len` bytes.
ReadLens(len) == {Min(len, BufSize), Min(len, ShortReadLen)}

\* The byte counts one write can return for `len` bytes.
WriteLens(len) == {len, Min(len, ShortWriteLen)}

\* The complete head of a well-formed response is in the bytes read, and it
\* has no more headers than the header array holds.
HeadReceived ==
    /\ Answer.wellformed
    /\ Answer.head_len <= io.read_len
    /\ Len(Answer.headers) <= MaxHeaders

\* The call got the complete head of an answer whose status code is neither
\* 2xx, 401 nor 407, and has ended.
UnexpectedStatus ==
    /\ pc = "done"
    /\ io.reads = 1
    /\ HeadReceived
    /\ ~(Answer.code >= 200 /\ Answer.code <= 299)
    /\ Answer.code \notin {401, 407}

----------------------------------------------------------------------------
(* Proxy::connect, step by step.                                           *)

\* The call ends: its locals go out of scope.
Finish(r, cs) ==
    /\ result' = r
    /\ conns' = cs
    /\ stream' = 0
    /\ connect' = <<>>
    /\ buf' = <<>>
    /\ pc' = "done"

\* Line 82: StdTcpStream::connect(&self.url)?
Connect(t, ok) ==
    /\ pc = "idle"
    /\ calls < MaxCalls
    /\ calls' = calls + 1
    /\ target' = t
    /\ response' = NoResponse
    /\ IF ok /\ url.has_authority
       THEN /\ conns' = Append(conns, [state |-> "open", owner |-> "connect",
                                           call |-> calls + 1])
            /\ stream' = Len(conns) + 1
            /\ io' = [NoIo EXCEPT !.opens = 1, !.conn = Len(conns) + 1]
            /\ result' = NoResult
            /\ pc' = "build"
            /\ UNCHANGED <<connect, buf>>
       ELSE /\ io' = [NoIo EXCEPT !.failed = "connect"]
            /\ Finish(from_io_error, conns)
    /\ UNCHANGED <<url, auth_type, prev>>

\* Lines 84-111: the request text, or an early end.
BuildRequest ==
    /\ pc = "build"
    /\ LET b == build_request(url, auth_type, target) IN
       IF b.tag = "send"
       THEN /\ connect' = b.bytes
            /\ pc' = "write"
            /\ UNCHANGED <<result, conns, stream, buf>>
       ELSE Finish(b, DropStream(conns, stream))
    /\ UNCHANGED <<url, auth_type, target, io, response, prev, calls>>

\* Lines 113-114: stream.write(connect.as_ref())?
WriteRequest(ok) ==
    /\ pc = "write"
    /\ IF ok
       THEN /\ \E n \in WriteLens(Len(connect)) :
                 io' = [io EXCEPT !.writes = @ + 1, !.sent = @ \o Take(connect, n)]
            /\ pc' = "read"
            /\ UNCHANGED <<result, conns, stream, connect, buf>>
       ELSE /\ io' = [io EXCEPT !.writes = @ + 1, !.failed = "write"]
            /\ Finish(from_io_error, DropStream(conns, stream))
    /\ UNCHANGED <<url, auth_type, target, response, prev, calls>>

\* ReadResponse with the result of the read dropped (`let _ =`): after a
\* failed read the call goes on with the buffer as it is.
ReadResponse_swallow(r, ok) ==
    /\ pc = "read"
    /\ IF ok
       THEN /\ response' = r
            /\ \E n \in ReadLens(Len(Responses[r].bytes)) :
                 /\ io' = [io EXCEPT !.reads = @ + 1, !.read_len = n]
                 /\ buf' = [i \in 1..BufSize |->
                               IF i <= n THEN Responses[r].bytes[i] ELSE 0]
       ELSE /\ io' = [io EXCEPT !.reads = @ + 1, !.failed = "read"]
            /\ buf' = [i \in 1..BufSize |-> 0]
            /\ UNCHANGED response
    /\ pc' = "dispatch"
    /\ UNCHANGED <<result, conns, stream, connect>>
    /\ UNCHANGED <<url, auth_type, target, prev, calls>>

\* Lines 116-118: stream.read(&mut buf)? into the zeroed buffer.
ReadResponse(r, ok) ==
    /\ pc = "read"
    /\ IF ok
       THEN /\ response' = r
            /\ \E n \in ReadLens(Len(Responses[r].bytes)) :
                 /\ io' = [io EXCEPT !.reads = @ + 1, !.read_len = n]
                 /\ buf' = [i \in 1..BufSize |->
                               IF i <= n THEN Responses[r].bytes[i] ELSE 0]
            /\ pc' = "dispatch"
            /\ UNCHANGED <<result, conns, stream, connect>>
       ELSE /\ io' = [io EXCEPT !.reads = @ + 1, !.failed = "read"]
            /\ UNCHANGED response
            /\ Finish(from_io_error, DropStream(conns, stream))
    /\ UNCHANGED <<url, auth_type, target, prev, calls>>

\* Dispatch that takes over the scheme a 407 offers first.
Dispatch_adopt(from_stream_ok) ==
    /\ pc = "dispatch"
    /\ LET d == dispatch(buf) IN
       /\ IF d.tag = "Ok"
          THEN IF from_stream_ok
               THEN Finish(Ok(stream), MoveToCaller(conns, stream))
               ELSE Finish(from_io_error, DropStream(conns, stream))
          ELSE Finish(d, DropStream(conns, stream))
       /\ auth_type' =
             IF d.tag = "Err" /\ d.kind.tag = "Proxy" /\ d.kind.auth_list.some
                    /\ d.kind.auth_list.v # <<>>
             THEN d.kind.auth_list.v[1]
             ELSE auth_type
    /\ UNCHANGED <<url, target, io, response, prev, calls>>

\* Dispatch with the request sent again after a 407, as in a retry loop
\* around the exchange.
Dispatch_retry(from_stream_ok) ==
    /\ pc = "dispatch"
    /\ LET d == dispatch(buf) IN
       IF d.tag = "Ok"
       THEN IF from_stream_ok
            THEN Finish(Ok(stream), MoveToCaller(conns, stream))
            ELSE Finish(from_io_error, DropStream(conns, stream))
       ELSE IF d.tag = "Err" /\ d.kind.tag = "Proxy" /\ d.kind.auth_list.some
            THEN /\ pc' = "write"
                 /\ buf' = <<>>
                 /\ UNCHANGED <<result, conns, stream, connect>>
       ELSE Finish(d, DropStream(conns, stream))
    /\ UNCHANGED <<url, auth_type, target, io, response, prev, calls>>

\* Lines 120-143: parse the buffer and branch on the status code.
Dispatch(from_stream_ok) ==
    /\ pc = "dispatch"
    /\ LET d == dispatch(buf) IN
       IF d.tag = "Ok"
       THEN IF from_stream_ok
            THEN Finish(Ok(stream), MoveToCaller(conns, stream))
            ELSE Finish(from_io_error, DropStream(conns, stream))
       ELSE Finish(d, DropStream(conns, stream))
    /\ UNCHANGED <<url, auth_type, target, io, response, prev, calls>>

\* The caller has the result; the Proxy is free for the next call.
Return ==
    /\ pc = "done"
    /\ pc' = "idle"
    /\ prev' = IF UnexpectedStatus
               THEN [code |-> Some(Answer.code), result |-> result]
               ELSE prev
    /\ UNCHANGED <<url, auth_type, target, stream, connect, buf, result, conns,
                   io, response, calls>>

Next ==
    \/ \E a \in AuthTypes : set_auth_type(a)
    \/ \E u \in Usernames : set_username(u)
    \/ \E p \in Passwords : set_password(p)
    \/ \E t \in Targets, ok \in BOOLEAN : Connect(t, ok)
    \/ BuildRequest
    \/ \E ok \in BOOLEAN : WriteRequest(ok)
    \/ \E r \in DOMAIN Responses, ok \in BOOLEAN : ReadResponse(r, ok)
    \/ \E ok \in BOOLEAN : Dispatch(ok)
    \/ Return

Spec == Init /\ [][Next]_vars

----------------------------------------------------------------------------
(* The properties.                                                         *)

\* The read of the running call returned bytes (possibly none).
ReadOk == io.reads = 1 /\ response # 0

\* The failure for Basic without credentials.
MissingCredentials == Err(Kind_Proxy(None), "use basic auth, but dont have auth.")
\* The failure for a scheme the component does not speak.
UnsupportedScheme == Err(Kind_Proxy(None), "unsupport authorization type.")
\* The failure for a status code that is neither 2xx, 401 nor 407.
GenericStatusFailure == Err(Kind_Proxy(None), "unexpect responsecode from proxy.")

\* The selected scheme cannot be sent: unknown, Digest, or Basic without
\* credentials.
Unsendable ==
    \/ auth_type.tag \in {"Unknown", "Digest"}
    \/ auth_type.tag = "Basic" /\ ~has_auth(url)

Is2xx(c) == c >= 200 /\ c <= 299

\* The call returned, as the tunnel, the connection it opened, still open.
TunnelReturned ==
    /\ result.tag = "Ok"
    /\ io.conn # 0
    /\ result.stream = io.conn
    /\ conns[io.conn].state = "open"
    /\ conns[io.conn].owner = "caller"

\* C1: with scheme Basic and no credentials, no transport connection to the
\* proxy is opened at any point of the call.
C1_NoConnectionWithoutCredentials ==
    (pc # "idle" /\ auth_type = AuthBasic /\ ~has_auth(url)) => io.opens = 0

\* C2: with scheme Digest, a call (to a reachable proxy, for a target with
\* a host) ends by returning the unsupported-scheme failure, not in a panic.
C2_DigestReturnsUnsupported ==
    (pc = "done" /\ auth_type = AuthDigest /\ io.opens = 1 /\ target.host_str.some)
        => result = UnsupportedScheme

\* C3: whatever bytes the proxy answers with, the call does not panic: it
\* ends in success or in a returned failure.
C3_NoPanicOnProxyInput ==
    (pc = "done" /\ ReadOk) => result.tag \in {"Ok", "Err"}

\* C4: when the bytes read do not hold the complete head of a well-formed
\* response within the buffer and header limits, the call fails with the
\* protocol-parse failure (or with a failure of the transport), and so
\* never returns a tunnel.
C4_MalformedHeadIsParseFailure ==
    (pc = "done" /\ ReadOk /\ ~HeadReceived)
        => (result.tag = "Err" /\ result.kind.tag \in {"Http", "Io"})

\* C5: for a 407 response the call fails with the authorization-required
\* failure, whose list has one entry per Proxy-Authenticate header.
C5_OfferedListPerHeader ==
    (pc = "done" /\ ReadOk /\ HeadReceived /\ Answer.code = 407)
        => /\ result.tag = "Err"
           /\ result.kind.tag = "Proxy"
           /\ result.kind.auth_list.some
           /\ Len(result.kind.auth_list.v)
                = Len(SelectSeq(Answer.headers,
                                LAMBDA h : h.name = str_proxy_authenticate))

\* C6 as stated: every 2xx code in a well-formed response gives success with
\* the connection of this call, still open; no other code gives success.
C6_Every2xxIsATunnel ==
    /\ (pc = "done" /\ ReadOk /\ HeadReceived /\ Is2xx(Answer.code))
            => TunnelReturned
    /\ (pc = "done" /\ result.tag = "Ok")
            => (ReadOk /\ Answer.wellformed /\ Is2xx(Answer.code))

\* C6, amended: every 2xx code in a well-formed response gives success with
\* the connection of this call, still open, unless TcpStream::from_stream
\* fails, and then the call returns the I/O failure and the connection is
\* closed; no code outside 200..299 gives success.
C6_2xxIsATunnelUnlessFromStreamFails ==
    /\ (pc = "done" /\ ReadOk /\ HeadReceived /\ Is2xx(Answer.code))
            => \/ TunnelReturned
               \/ /\ result = from_io_error
                  /\ conns[io.conn].state = "closed"
    /\ (pc = "done" /\ result.tag = "Ok")
            => (ReadOk /\ Answer.wellformed /\ Is2xx(Answer.code))

\* A call that got status 299 and returned the tunnel.
C6_Witness ==
    /\ pc = "done" /\ ReadOk /\ HeadReceived
    /\ Answer.code = 299
    /\ TunnelReturned

\* C7: when the call returns a failure, the connection it opened is closed
\* and is not in the caller's hands.
C7_ClosedOnFailure ==
    (pc = "done" /\ result.tag = "Err")
        => \A i \in DOMAIN conns :
               conns[i].call = calls
                   => (conns[i].state = "closed" /\ conns[i].owner = "nobody")

\* A call that got a 401 on a connection it had opened, and returned the
\* failure.
C7_Witness ==
    /\ pc = "done" /\ result.tag = "Err"
    /\ ReadOk /\ HeadReceived /\ Answer.code = 401
    /\ io.conn # 0 /\ conns[io.conn].state = "closed"

\* C8: a call opens at most one connection, a new one, writes at most once
\* and reads at most once; after a 401 or 407 it has ended with one request
\* sent.
C8_OneAttemptPerCall ==
    /\ io.opens <= 1 /\ io.writes <= 1 /\ io.reads <= 1
    /\ stream # 0
          => /\ stream = io.conn
             /\ conns[stream].call = calls
             /\ conns[stream].owner = "connect"
    /\ (pc = "done" /\ result.tag = "Ok") => conns[result.stream].call = calls
    /\ (ReadOk /\ HeadReceived /\ Answer.code \in {401, 407} /\ pc # "dispatch")
          => (pc \in {"done", "idle"} /\ io.writes = 1 /\ io.reads = 1)

\* A second call, made while the caller holds the tunnel of the first, that
\* got a 407 and ended after its one request.
C8_Witness ==
    /\ calls = 2 /\ pc = "done" /\ Len(conns) = 2
    /\ conns[1].owner = "caller" /\ conns[1].state = "open"
    /\ ReadOk /\ HeadReceived /\ Answer.code = 407
    /\ io.writes = 1 /\ io.conn = 2

\* C9: while the selected scheme is unknown, Digest, or Basic without
\* credentials, the call writes nothing to the proxy stream.
C9_NothingWrittenWhenUnsendable ==
    (pc # "idle" /\ Unsendable) => (io.writes = 0 /\ io.sent = <<>>)

\* A call with an unknown scheme that connected to the proxy and returned
\* the unsupported-scheme failure.
C9_Witness ==
    /\ pc = "done" /\ auth_type.tag = "Unknown"
    /\ io.opens = 1
    /\ result = UnsupportedScheme

ProxyUnauthorized == Err(Kind_Proxy(None), "proxy unauthorized.")

\* The call ended in one of the failure modes other than an unexpected
\* status: a configuration error found before anything was sent, a 401, or
\* an answer that is no well-formed response.
OtherFailureMode ==
    /\ pc = "done" /\ result.tag = "Err"
    /\ \/ io.opens = 1 /\ io.writes = 0
       \/ ReadOk /\ HeadReceived /\ Answer.code = 401
       \/ ReadOk /\ ~Answer.wellformed

\* C11: the failure of a call that ended in a configuration error, a 401 or
\* a malformed response differs, in its kind and the kind's payload, from
\* the failure an earlier call returned for an unexpected status.
C11_FailureModesDistinctByKind ==
    (OtherFailureMode /\ prev.code.some) => result.kind # prev.result.kind

\* C12: for a well-formed 401 response the call fails with the
\* proxy-unauthorized failure, which carries no list of offered schemes,
\* whichever scheme the request was sent with.
C12_UnauthorizedOn401 ==
    (pc = "done" /\ ReadOk /\ HeadReceived /\ Answer.code = 401)
        => (result = ProxyUnauthorized /\ ~result.kind.auth_list.some)

\* A call with scheme Basic and credentials that got a 401 and returned the
\* proxy-unauthorized failure.
C12_Witness ==
    /\ pc = "done" /\ ReadOk /\ HeadReceived /\ Answer.code = 401
    /\ auth_type = AuthBasic /\ has_auth(url)
    /\ io.writes = 1
    /\ result = ProxyUnauthorized

\* s has p as a contiguous part.
contains(s, p) ==
    \E i \in 0..(Len(s) - Len(p)) : SubSeq(s, i + 1, i + Len(p)) = p

\* "proxy-authorization"
str_proxy_authorization_name ==
    <<112, 114, 111, 120, 121, 45, 97, 117, 116, 104, 111, 114, 105, 122, 97,
      116, 105, 111, 110>>
str_http11_suffix == <<32, 72, 84, 84, 80, 47, 49, 46, 49>>    \* " HTTP/1.1"
str_host_header == <<72, 111, 115, 116, 58, 32>>               \* "Host: "
\* "Connection: keep-alive"
str_connection_keep_alive ==
    <<67, 111, 110, 110, 101, 99, 116, 105, 111, 110, 58, 32, 107, 101, 101,
      112, 45, 97, 108, 105, 118, 101>>

\* A request made of the given lines, each ended by CRLF, and a blank line.
RequestOf(lines) ==
    Concat([i \in 1..Len(lines) |-> lines[i] \o crlf]) \o crlf

\* The three lines of a CONNECT request for `host` without authorization.
PlainLines(host) ==
    <<str_connect \o host \o str_http11_suffix,
      str_host_header \o host,
      str_connection_keep_alive>>

\* C13: with scheme None the request handed to the stream is the CONNECT
\* line, the Host header and the Connection: keep-alive header and nothing
\* else, and what is written of it holds no Proxy-Authorization header,
\* also when the proxy url has a username and a password.
C13_NoAuthorizationWhenNone ==
    (pc # "idle" /\ auth_type = AuthNone /\ target.host_str.some)
        => /\ pc \in {"write", "read", "dispatch"}
                => connect = RequestOf(PlainLines(host_of(target)))
           /\ starts_with(RequestOf(PlainLines(host_of(target))), io.sent)
           /\ ~contains(to_lowercase(io.sent), str_proxy_authorization_name)

\* A call with scheme None on a proxy url with username and password, whose
\* whole request was written.
C13_Witness ==
    /\ pc = "read" /\ auth_type = AuthNone /\ has_auth(url)
    /\ target.host_str.some
    /\ io.writes = 1 /\ io.sent = connect
    /\ Len(io.sent) > 0

\* The value of a hexadecimal digit, -1 for any other byte.
HexValue(b) ==
    IF b >= 48 /\ b <= 57 THEN b - 48
    ELSE IF b >= 65 /\ b <= 70 THEN b - 55
    ELSE IF b >= 97 /\ b <= 102 THEN b - 87
    ELSE -1

\* The text that percent-encodes to s: what the caller gave to set_username
\* or set_password.
RECURSIVE percent_decode(_)
percent_decode(s) ==
    IF s = <<>> THEN <<>>
    ELSE IF s[1] = 37 /\ Len(s) >= 3 /\ HexValue(s[2]) >= 0 /\ HexValue(s[3]) >= 0
         THEN <<HexValue(s[2]) * 16 + HexValue(s[3])>> \o percent_decode(Drop(s, 3))
    ELSE <<s[1]>> \o percent_decode(Tail(s))

\* "Proxy-Authorization: Basic "
str_proxy_authorization_basic ==
    <<80, 114, 111, 120, 121, 45, 65, 117, 116, 104, 111, 114, 105, 122, 97,
      116, 105, 111, 110, 58, 32, 66, 97, 115, 105, 99, 32>>

\* The four lines of a CONNECT request for `host` with the Basic credential.
BasicLines(host, credential) ==
    <<str_connect \o host \o str_http11_suffix,
      str_host_header \o host,
      str_proxy_authorization_basic \o credential,
      str_connection_keep_alive>>

\* username:password as the caller configured them.
ConfiguredAuth ==
    percent_decode(url.username) \o <<58>> \o percent_decode(url.password.v)

\* C14: with scheme Basic and credentials set, the request has one
\* Proxy-Authorization header, "Basic " followed by the base64 encoding of
\* username:password as configured.
C14_BasicCredentialOfConfigured ==
    (pc \in {"write", "read", "dispatch"} /\ auth_type = AuthBasic)
        => connect = RequestOf(BasicLines(host_of(target),
                                          encode_base64(ConfiguredAuth)))

\* Text t begins with `word` (given in lower case), each letter in either
\* case.
BeginsWithAnyCase(t, word) ==
    /\ Len(t) >= Len(word)
    /\ \A i \in 1..Len(word) : t[i] \in {word[i], word[i] - 32}

\* The scheme the text of a challenge stands for.
SchemeOf(t) ==
    IF BeginsWithAnyCase(t, str_basic) THEN AuthBasic
    ELSE IF BeginsWithAnyCase(t, str_digest) THEN AuthDigest
    ELSE [tag |-> "Unknown", name |-> t]

\* `word` in each of its letter casings.
Casings(word) ==
    {[i \in 1..Len(word) |-> word[i] - 32 * up[i]] :
        up \in [1..Len(word) -> {0, 1}]}

\* Texts AuthType::from is tried on besides the challenges the proxy sends:
\* every casing of "basic" and "digest", alone, followed by more text, and
\* with the last letter cut off or a byte put in front.
FromTexts ==
    LET words == Casings(str_basic) \cup Casings(str_digest) IN
    words
        \cup {w \o str_basic_realm : w \in words}
        \cup {SubSeq(w, 1, Len(w) - 1) : w \in words}
        \cup {<<32>> \o w : w \in words}
        \cup {<<>>, str_ntlm}

\* The call got the complete head of a 407 and returned its failure.
Got407 ==
    /\ pc = "done" /\ ReadOk /\ HeadReceived /\ Answer.code = 407
    /\ result.tag = "Err"

\* C15: AuthType::from gives Basic for a text that begins with "basic" in
\* any letter case, Digest for one that begins with "digest" in any letter
\* case, and Unknown with the text itself, unchanged, for every other text,
\* the empty one included: on each challenge of a 407, and on each text of
\* FromTexts.
C15_FromIsCaseInsensitivePrefix ==
    Got407 =>
        LET named == SelectSeq(Answer.headers,
                               LAMBDA h : h.name = str_proxy_authenticate)
            list == result.kind.auth_list.v
        IN /\ Len(list) = Len(named)
           /\ \A k \in 1..Len(named) : list[k] = SchemeOf(named[k].value)
           /\ \A t \in FromTexts : AuthType_from(t) = SchemeOf(t)

\* A 407 whose challenges, in mixed letter case, gave Basic, Digest and
\* Unknown with the text as sent.
C15_Witness ==
    /\ Got407
    /\ Len(Answer.headers) = Len(ChallengeTexts)
    /\ Answer.headers[1].value = ChallengeTexts[1]
    /\ Len(result.kind.auth_list.v) = Len(ChallengeTexts)
    /\ result.kind.auth_list.v[1] = AuthBasic
    /\ result.kind.auth_list.v[3] = AuthDigest
    /\ result.kind.auth_list.v[6] = [tag |-> "Unknown", name |-> ChallengeTexts[6]]
    /\ result.kind.auth_list.v[8] = [tag |-> "Unknown", name |-> ChallengeTexts[8]]

\* C16: when opening the connection, writing the request or reading the
\* response fails in the transport, the call has ended with the
\* connection-error failure, which is no protocol-level failure, and has
\* made no I/O call after the one that failed.
C16_TransportFailureEndsTheCall ==
    io.failed # "none"
        => /\ pc \in {"done", "idle"}
           /\ result = from_io_error
           /\ result.kind.tag \notin {"Proxy", "Http"}
           /\ io.failed = "connect"
                => (io.opens = 0 /\ io.writes = 0 /\ io.reads = 0)
           /\ io.failed = "write"
                => (io.writes = 1 /\ io.sent = <<>> /\ io.reads = 0)
           /\ io.failed = "read" => (io.reads = 1 /\ response = NoResponse)

\* A call whose request was written and whose read then failed.
C16_Witness ==
    /\ pc = "done" /\ io.failed = "read"
    /\ io.opens = 1 /\ io.writes = 1 /\ Len(io.sent) > 0
    /\ result = from_io_error

\* What the ended call returns, told from the configuration, the target
\* and what the transport and the proxy did in this call alone: "Ok" for a
\* stream, or else the failure or panic.
OutcomeOfCall ==
    IF io.failed # "none" THEN from_io_error
    ELSE IF io.writes = 0 THEN build_request(url, auth_type, target)
    ELSE LET d == dispatch([i \in 1..BufSize |->
                              IF i <= io.read_len THEN Answer.bytes[i] ELSE 0])
         IN IF d.tag # "Ok" THEN d
            ELSE IF result.tag = "Ok" THEN [tag |-> "Ok"] ELSE from_io_error

\* C17: no step of a connect call changes the proxy url (address and
\* credentials) or the selected scheme; they change only in a step of
\* set_auth_type, set_username or set_password, which is made between
\* calls.  And what a call returns is told by the configuration, the target
\* and the behaviour of transport and proxy in that call, so that two calls
\* alike in these return alike.
C17_ConnectKeepsConfiguration ==
    /\ [][(pc # "idle" \/ pc' # "idle")
            => (url' = url /\ auth_type' = auth_type)]_vars
    /\ [](pc = "done"
            => IF result.tag = "Ok" THEN OutcomeOfCall = [tag |-> "Ok"]
               ELSE OutcomeOfCall = result)

\* A call with scheme None has ended on a 407 that offers Basic, and the
\* scheme is still None.
C17_Witness ==
    /\ Got407
    /\ result.kind.auth_list.some
    /\ \E k \in DOMAIN result.kind.auth_list.v :
           result.kind.auth_list.v[k] = AuthBasic
    /\ auth_type = AuthNone

\* C18: when the call comes to read the response, every byte of the
\* request has been written to the stream.
C18_WholeRequestWrittenBeforeRead ==
    pc \in {"read", "dispatch"} => io.sent = connect

\* The headers of the answer whose name is Proxy-Authenticate, byte for
\* byte, by their place in the response.
ExactlyNamed == {i \in DOMAIN Answer.headers :
                    Answer.headers[i].name = str_proxy_authenticate}

\* The place in the offered list of the entry for header i of ExactlyNamed.
EntryOf(i) == Cardinality({j \in ExactlyNamed : j <= i})

\* C19: in the failure returned for a 407, the offered list has an entry for
\* a header exactly when the header's name is Proxy-Authenticate byte for
\* byte: headers named so in another letter case and other headers have
\* none; and the entry for a Proxy-Authenticate header with an empty value
\* is Unknown with the empty name.
C19_OnlyExactNameContributes ==
    Got407 =>
        /\ result.kind.auth_list.some
        /\ Len(result.kind.auth_list.v) = Cardinality(ExactlyNamed)
        /\ \A i \in ExactlyNamed :
              Answer.headers[i].value = <<>>
                  => result.kind.auth_list.v[EntryOf(i)]
                        = [tag |-> "Unknown", name |-> <<>>]

\* The failure for a 407 with a proxy-authenticate header in lower case, a
\* Server header and three Proxy-Authenticate headers, the first of them
\* empty: three entries, the first Unknown with the empty name.
C19_Witness ==
    /\ Got407
    /\ Len(Answer.headers) = 5
    /\ Answer.headers[1].name = str_proxy_authenticate_lower
    /\ Answer.headers[2] = Hdr(str_proxy_authenticate, <<>>)
    /\ result.kind.auth_list.v
          = << [tag |-> "Unknown", name |-> <<>>],
               [tag |-> "Unknown", name |-> str_ntlm],
               [tag |-> "Unknown", name |-> str_ntlm] >>

\* The panic of Option::unwrap on None: in a call whose target has a host,
\* that of self.url.password().unwrap() in get_auth.
UnwrapOfNone == Panicked("called Option::unwrap() on a None value")

\* C20: a call with scheme Basic (for a target with a host, past the
\* building of the request) never panics on an absent password: either the
\* url has a password and the request has the Proxy-Authorization header,
\* or it has none and the call has returned the missing-credentials failure
\* with nothing written.
C20_GetAuthOnlyWithPassword ==
    (pc \in {"write", "read", "dispatch", "done"} /\ auth_type = AuthBasic
        /\ target.host_str.some /\ io.opens = 1)
        => /\ result # UnwrapOfNone
           /\ IF url.password.some
              THEN /\ pc = "done" => io.writes = 1
                   /\ pc # "done"
                        => contains(connect, str_proxy_authorization_basic)
              ELSE /\ pc = "done"
                   /\ io.writes = 0
                   /\ result = MissingCredentials

\* A call with scheme Basic on a proxy url that was given a username but no
\* password: the missing-credentials failure.
C20_Witness ==
    /\ pc = "done" /\ auth_type = AuthBasic
    /\ target.host_str.some /\ io.opens = 1
    /\ url.username # <<>> /\ ~url.password.some
    /\ result = MissingCredentials

=============================================================================
